---- MODULE Spec2Model ----
(***************************************************************************)
(* Model of range-split (src/src/lib.rs): the Split trait and its only     *)
(* implementation, Split::split for core::ops::Range<T>, over integers.    *)
(* A Range is a pair of endpoints start..end (half-open); an Option is     *)
(* None or Some(range); split returns the triple (below, inter, above).    *)
(***************************************************************************)
EXTENDS Integers, Sequences, FiniteSets

\* Endpoints are drawn from 0..MaxVal.
MaxVal == 4

Vals == 0 .. MaxVal

\* core::ops::Range<T>: a plain pair of endpoints, no ordering enforced.
Range(s, e) == [start |-> s, end |-> e]

\* Option<Range<T>>
None == << >>

Some(r) == << r >>

\* Every Range value the type admits, reversed ones (start > end) included.
AnyRanges == { Range(s, e) : s \in Vals, e \in Vals }

\* Ranges as the callers are expected to build them: start <= end.
WellFormed(r) == r.start <= r.end

Ranges == { r \in AnyRanges : WellFormed(r) }

\* Ord::min
Min_keepsFirst(a, b) == a

Min(a, b) == IF a <= b THEN a ELSE b

\* Range::contains: start <= item && item < end
contains_inclusiveEnd(r, item) == r.start <= item /\ item <= r.end

contains(r, item) == r.start <= item /\ item < r.end

\* The points a half-open range denotes (none when start >= end).
Points(r) == { x \in Vals : contains(r, x) }

\* ---- variants of split, each with one plausible slip ----

\* branch 2 tests `other.end <= self.end` for the above piece
split_aboveOnTouch(self, other) ==
  IF self.start < other.start
  THEN LET below  == Some(Range(self.start, Min(self.end, other.start)))
           inter1 == IF other.start < self.end /\ self.end <= other.end
                     THEN Some(Range(other.start, self.end)) ELSE None
           inter2 == IF other.end < self.end THEN Some(other) ELSE inter1
           above  == IF other.end < self.end
                     THEN Some(Range(other.end, self.end)) ELSE None
       IN  << below, inter2, above >>
  ELSE IF contains(other, self.start)
  THEN LET inter == Some(Range(self.start, Min(self.end, other.end)))
           above == IF other.end <= self.end
                    THEN Some(Range(other.end, self.end)) ELSE None
       IN  << None, inter, above >>
  ELSE << None, None, Some(self) >>

\* branch 1 forgets to replace inter by other when self extends past other
split_interNotClamped(self, other) ==
  IF self.start < other.start
  THEN LET below  == Some(Range(self.start, Min(self.end, other.start)))
           inter1 == IF other.start < self.end
                     THEN Some(Range(other.start, self.end)) ELSE None
           above  == IF other.end < self.end
                     THEN Some(Range(other.end, self.end)) ELSE None
       IN  << below, inter1, above >>
  ELSE IF contains(other, self.start)
  THEN LET inter == Some(Range(self.start, Min(self.end, other.end)))
           above == IF other.end < self.end
                    THEN Some(Range(other.end, self.end)) ELSE None
       IN  << None, inter, above >>
  ELSE << None, None, Some(self) >>

\* branch 1 starts the above piece at other.start instead of other.end
split_aboveFromOtherStart(self, other) ==
  IF self.start < other.start
  THEN LET below  == Some(Range(self.start, Min(self.end, other.start)))
           inter1 == IF other.start < self.end /\ self.end <= other.end
                     THEN Some(Range(other.start, self.end)) ELSE None
           inter2 == IF other.end < self.end THEN Some(other) ELSE inter1
           above  == IF other.end < self.end
                     THEN Some(Range(other.start, self.end)) ELSE None
       IN  << below, inter2, above >>
  ELSE IF contains(other, self.start)
  THEN LET inter == Some(Range(self.start, Min(self.end, other.end)))
           above == IF other.end < self.end
                    THEN Some(Range(other.end, self.end)) ELSE None
       IN  << None, inter, above >>
  ELSE << None, None, Some(self) >>

\* the first test is `self.start <= other.start`
split_belowOnEqualStart(self, other) ==
  IF self.start <= other.start
  THEN LET below  == Some(Range(self.start, Min(self.end, other.start)))
           inter1 == IF other.start < self.end /\ self.end <= other.end
                     THEN Some(Range(other.start, self.end)) ELSE None
           inter2 == IF other.end < self.end THEN Some(other) ELSE inter1
           above  == IF other.end < self.end
                     THEN Some(Range(other.end, self.end)) ELSE None
       IN  << below, inter2, above >>
  ELSE IF contains(other, self.start)
  THEN LET inter == Some(Range(self.start, Min(self.end, other.end)))
           above == IF other.end < self.end
                    THEN Some(Range(other.end, self.end)) ELSE None
       IN  << None, inter, above >>
  ELSE << None, None, Some(self) >>

\* branch 2 never sets the above piece
split_noAboveInBranch2(self, other) ==
  IF self.start < other.start
  THEN LET below  == Some(Range(self.start, Min(self.end, other.start)))
           inter1 == IF other.start < self.end /\ self.end <= other.end
                     THEN Some(Range(other.start, self.end)) ELSE None
           inter2 == IF other.end < self.end THEN Some(other) ELSE inter1
           above  == IF other.end < self.end
                     THEN Some(Range(other.end, self.end)) ELSE None
       IN  << below, inter2, above >>
  ELSE IF contains(other, self.start)
  THEN LET inter == Some(Range(self.start, Min(self.end, other.end)))
       IN  << None, inter, None >>
  ELSE << None, None, Some(self) >>

\* Split::split for Range<T>.  below, inter and above start as None and are
\* assigned in program order; inter2 is inter after the second `if` of the
\* first branch, which overwrites the first one's assignment.
split(self, other) ==
  IF self.start < other.start
  THEN LET below  == Some(Range(self.start, Min(self.end, other.start)))
           inter1 == IF other.start < self.end /\ self.end <= other.end
                     THEN Some(Range(other.start, self.end)) ELSE None
           inter2 == IF other.end < self.end THEN Some(other) ELSE inter1
           above  == IF other.end < self.end
                     THEN Some(Range(other.end, self.end)) ELSE None
       IN  << below, inter2, above >>
  ELSE IF contains(other, self.start)
  THEN LET inter == Some(Range(self.start, Min(self.end, other.end)))
           above == IF other.end < self.end
                    THEN Some(Range(other.end, self.end)) ELSE None
       IN  << None, inter, above >>
  ELSE << None, None, Some(self) >>

\* ---- the state machine: a caller picks two ranges, split runs ----

VARIABLES self, other, result, pc

vars == << self, other, result, pc >>

NoResult == << None, None, None >>

Init ==
  /\ self \in Ranges
  /\ other \in Ranges
  /\ result = NoResult
  /\ pc = "called"

InitAny ==
  /\ self \in AnyRanges
  /\ other \in AnyRanges
  /\ result = NoResult
  /\ pc = "called"

\* self.split(&other) runs to completion; the inputs are borrowed, not changed.
Split ==
  /\ pc = "called"
  /\ result' = split(self, other)
  /\ pc' = "done"
  /\ UNCHANGED << self, other >>

\* The caller makes the next call, with well-formed ranges.
Call ==
  /\ pc = "done"
  /\ \E a \in Ranges, b \in Ranges : self' = a /\ other' = b
  /\ result' = NoResult
  /\ pc' = "called"

\* The caller makes the next call, with any ranges.
CallAny ==
  /\ pc = "done"
  /\ \E a \in AnyRanges, b \in AnyRanges : self' = a /\ other' = b
  /\ result' = NoResult
  /\ pc' = "called"

Next == Split \/ Call

NextAny == Split \/ CallAny

Spec == Init /\ [][Next]_vars

SpecAny == InitAny /\ [][NextAny]_vars

\* ---- vocabulary of the properties ----

\* The slots .0 (below), .1 (intersection) and .2 (above) of the returned tuple.
slot0 == result[1]

slot1 == result[2]

slot2 == result[3]

NonEmpty(r) == r.start < r.end

\* The present slots that hold at least one point, in the order
\* below, intersection, above.
Pieces == SelectSeq(result, LAMBDA o : o # None /\ Points(o[1]) # {})

\* The present slots, in order, whatever they hold.
Present == SelectSeq(result, LAMBDA o : o # None)

PairwiseDisjoint(ps) ==
  \A i \in 1 .. Len(ps) : \A j \in 1 .. Len(ps) :
    i # j => Points(ps[i][1]) \cap Points(ps[j][1]) = {}

Contiguous(ps) ==
  \A i \in 1 .. Len(ps) - 1 : ps[i][1].end = ps[i + 1][1].start

Covered(ps) == UNION { Points(ps[i][1]) : i \in 1 .. Len(ps) }

Reversed(r) == r.start > r.end

\* ---- C1 ----
\* C1 (partition): for well-formed self and other, the present slots that hold
\* at least one point, in the order below, intersection, above, are pairwise
\* disjoint, each ends where the next starts, and together they cover exactly
\* the points of self.
C1_Partition ==
  pc = "done" =>
    /\ PairwiseDisjoint(Pieces)
    /\ Contiguous(Pieces)
    /\ Covered(Pieces) = Points(self)

\* self reaches past other on both sides: three pieces, all holding points.
C1_Witness ==
  /\ pc = "done"
  /\ Len(Pieces) = 3
  /\ self.start < other.start
  /\ other.end < self.end

\* ---- C2 ----
\* C2 (intersection against a reference): with lo = max(self.start,
\* other.start) and hi = min(self.end, other.end), slot .1 is Some(lo..hi)
\* when lo < hi and None when lo >= hi.
C2_IntersectionReference ==
  pc = "done" =>
    LET lo == IF self.start >= other.start THEN self.start ELSE other.start
        hi == IF self.end <= other.end THEN self.end ELSE other.end
    IN  slot1 = IF lo < hi THEN Some(Range(lo, hi)) ELSE None

\* ---- C3 ----
\* C3 (no empty or malformed piece): for well-formed self and other, every
\* present slot holds a range with start < end.
C3_NoEmptyPiece ==
  pc = "done" =>
    \A i \in 1 .. 3 : result[i] # None => NonEmpty(result[i][1])

\* ---- C4 ----
\* C4 as stated (containment, empty ranges included): if other.start <=
\* self.start and self.end <= other.end then the result is
\* (None, Some(self), None).
C4_ContainmentOriginal ==
  (pc = "done" /\ other.start <= self.start /\ self.end <= other.end)
    => result = << None, Some(self), None >>

\* C4 as amended: the same, for a self that holds at least one point.
C4_ContainmentNonEmpty ==
  (pc = "done" /\ NonEmpty(self)
     /\ other.start <= self.start /\ self.end <= other.end)
    => result = << None, Some(self), None >>

\* a non-empty self inside other and ending exactly where other ends
C4_Witness ==
  /\ pc = "done"
  /\ NonEmpty(self)
  /\ other.start < self.start
  /\ self.end = other.end
  /\ result = << None, Some(self), None >>

C6_Symmetry ==
  pc = "done" =>
    LET back == split(other, self)[2]
    IN  (slot1 # None /\ back # None) => slot1 = back

\* both intersections present, self strictly containing other
C6_Witness ==
  /\ pc = "done"
  /\ self.start < other.start
  /\ other.end < self.end
  /\ NonEmpty(other)
  /\ slot1 # None
  /\ split(other, self)[2] # None

\* ---- C7 ----
\* C7 as stated: if self.start < other.start and other.end < self.end then
\* the result is (Some(self.start..other.start), Some(other),
\* Some(other.end..self.end)) and each of the three ranges is non-empty.
C7_ThreePiecesOriginal ==
  (pc = "done" /\ self.start < other.start /\ other.end < self.end)
    => /\ result = << Some(Range(self.start, other.start)), Some(other),
                      Some(Range(other.end, self.end)) >>
       /\ \A i \in 1 .. 3 : NonEmpty(result[i][1])

\* C7 as amended: the same, for an other that holds at least one point.
C7_ThreePiecesNonEmptyOther ==
  (pc = "done" /\ NonEmpty(other)
     /\ self.start < other.start /\ other.end < self.end)
    => /\ result = << Some(Range(self.start, other.start)), Some(other),
                      Some(Range(other.end, self.end)) >>
       /\ \A i \in 1 .. 3 : NonEmpty(result[i][1])

\* the doc example's shape: foo strictly around a non-empty bar
C7_Witness ==
  /\ pc = "done"
  /\ NonEmpty(other)
  /\ self.start < other.start
  /\ other.end < self.end
  /\ slot0 # None /\ slot1 # None /\ slot2 # None

\* ---- C8 ----
\* C8 (self-split identity): for a range A with A.start < A.end,
\* A.split(A) is (None, Some(A), None).
C8_SelfSplit ==
  (pc = "done" /\ self = other /\ NonEmpty(self))
    => result = << None, Some(self), None >>

C8_Witness ==
  /\ pc = "done"
  /\ self = other
  /\ NonEmpty(self)
  /\ slot1 = Some(self)

\* ---- C9 ----
\* C9 (above slot): slot .2 is present iff self.end > other.end or
\* self.start >= other.end; when present it is
\* max(self.start, other.end)..self.end.
C9_AboveSlot ==
  pc = "done" =>
    LET from == IF self.start >= other.end THEN self.start ELSE other.end
    IN  /\ slot2 # None <=> (self.end > other.end \/ self.start >= other.end)
        /\ slot2 # None => slot2 = Some(Range(from, self.end))

\* self starts inside other and reaches past its end
C9_Witness ==
  /\ pc = "done"
  /\ other.start <= self.start
  /\ self.start < other.end
  /\ other.end < self.end
  /\ slot2 = Some(Range(other.end, self.end))

\* ---- C10 ----
\* C10 (reversed inputs behave as empty): when self, other or both have
\* start > end, the point sets of the present pieces are pairwise disjoint
\* and their union is the point set of self.
C10_ReversedAsEmpty ==
  (pc = "done" /\ (Reversed(self) \/ Reversed(other)))
    => /\ PairwiseDisjoint(Present)
       /\ Covered(Present) = Points(self)

====
